---- MODULE Spec2Model ----
(***************************************************************************)
(* The firmware of hardware/SonosButtonControl.ino as a state machine.     *)
(*                                                                         *)
(* The sketch is one cooperative loop: setup(), then loop() for ever.      *)
(* A state of the model is a point where the sketch is about to read its   *)
(* environment: the top of loop(), the head of the wait loop of            *)
(* connectToWifi(), a digitalWrite of the blink loop of resetConfig(), a   *)
(* pending GET of makeApiCall().  Code that runs between two such points   *)
(* takes no time and is one step.  The environment (the two buttons, the   *)
(* serial line, the access point, the power supply, the clock) moves at    *)
(* these points only: what it does while the sketch is blocked is seen by  *)
(* the sketch at the next point.                                           *)
(*                                                                         *)
(* Time.  The sketch reads millis() in three places: to stamp a press      *)
(* (lines 203, 218), to take the age of that stamp (lines 209, 224) and    *)
(* for the phase of the blink (line 71).  The model keeps no absolute      *)
(* clock.  It keeps, for each button, the age millis() - pressStartTimeN   *)
(* of the stamp, which is 0 when the stamp is taken, grows with every      *)
(* delay and every tick of the clock, and is kept up to AgeCap, the        *)
(* threshold it is compared with.  The phase of the blink is an input of   *)
(* the refresh.                                                            *)
(*                                                                         *)
(* Specifications.  Spec is the whole sketch with its environment.         *)
(* SpecFair is Spec with button 2 left alone and the sketch's steps taken  *)
(* fairly.  SpecConnect and SpecCommand are connectToWifi() and            *)
(* checkSerialInput() called on their own; SpecSave takes saveConfig() one *)
(* putString at a time; SpecWrap keeps millis() and the stamp of button 1  *)
(* as the 32-bit counters they are.                                        *)
(***************************************************************************)
EXTENDS Integers, Sequences, FiniteSets, TLC

\* ------------------------------------------------------------ constants

MIN_PRESS_TIME == 50

ConnectAttempts == 20

ConnectDelay == 500

ResetPulses == 3

ResetDelay == 100

\* The clock moves in ticks of TickMs between two reads of the environment.
TickMs == 25

\* In SpecWrap a press is followed ms by ms up to ShortHold ms.
ShortHold == 100

\* Ages are kept up to the threshold they are compared with: an age of AgeCap is
\* an age of AgeCap or more.
AgeCap == MIN_PRESS_TIME

Min(a, b) == IF a < b THEN a ELSE b

\* ------------------------------------------------------------ strings

StartsWith(s, p) == Len(s) >= Len(p) /\ SubSeq(s, 1, Len(p)) = p

\* String::substring(from): the rest of s from index `from` (0-based).
Substring(s, from) == IF from >= Len(s) THEN "" ELSE SubSeq(s, from + 1, Len(s))

RECURSIVE TrimLeft(_)
TrimLeft(s) ==
    IF Len(s) > 0 /\ SubSeq(s, 1, 1) = " " THEN TrimLeft(SubSeq(s, 2, Len(s))) ELSE s

RECURSIVE TrimRight(_)
TrimRight(s) ==
    IF Len(s) > 0 /\ SubSeq(s, Len(s), Len(s)) = " "
    THEN TrimRight(SubSeq(s, 1, Len(s) - 1)) ELSE s

\* String::trim(): leading and trailing white space removed.
Trim(s) == TrimRight(TrimLeft(s))

\* ------------------------------------------------------------ state

VARIABLES
    \* the sketch's globals (lines 11-28)
    wifiSsid, wifiPass, baseUrl, apiKey,
    wifiConnected,
    button1Pressed, button2Pressed,
    sincePress1, sincePress2,   \* millis() - pressStartTime1, millis() - pressStartTime2
    \* where the sketch stands, and the locals that live across a blocking call
    pc,             \* "setup" "serial" "connect" "reset" "buttons" "get1" "get2" "led"
    after,          \* where connectToWifi() returns to: "serial" (from setup) or "buttons"
    attempts,       \* connectToWifi: int attempts
    blink,          \* resetConfig: digitalWrites of the blink loop done so far
    button2State,   \* checkButtonPressAndRelease: the level read at line 199
    \* the board and the libraries
    prefs,          \* Preferences, namespace "esp32app": key -> stored string
    wifiStatus,     \* WiFi.status(): "WL_IDLE_STATUS" "WL_DISCONNECTED" "WL_CONNECTED"
    led,            \* STATUS_LED: "LOW" "HIGH"
    pin1, pin2,     \* BUTTON1_PIN, BUTTON2_PIN: "LOW" (pressed) "HIGH" (released)
    serialIn,       \* the complete line waiting on Serial, if any: <<>> or <<line>>
    http,           \* the GET in flight, if any: <<>> or <<[url, secure, headers]>>
    \* saveConfig() taken one putString at a time (SpecSave)
    written,        \* the putStrings of the saveConfig() in progress done so far
    \* the counter of millis() and the stamp of button 1 at their width (SpecWrap);
    \* everywhere else the ages above stand for them
    millis, pressStartTime1,
    \* history, for the properties
    received,       \* the command line 136 logged in this pass of loop(): <<>> or <<command>>
    calls,          \* the endpoints makeApiCall was called with in this pass of loop()
    readAge2,       \* the age of button 2's stamp when line 199 read the pin
    arrived,        \* a FLASH_RESET came in while connectToWifi() waited and is not yet
                    \* done with: "" (none), "connecting", then "connected" or "failed"
    response,       \* what the last GET of this pass returned: <<>> or <<httpResponseCode>>
    before,         \* the four fields when the command being saved was read, or <<>>
    held            \* the time since button 1's stamp was taken, as it really passed

config == <<wifiSsid, wifiPass, baseUrl, apiKey>>
buttons == <<button1Pressed, button2Pressed, sincePress1, sincePress2>>
locals == <<after, attempts, blink, button2State>>
board == <<prefs, wifiStatus, led, pin1, pin2, serialIn, http>>
history == <<received, calls, readAge2, arrived>>
saving == <<written, before>>
wrap == <<millis, pressStartTime1, held>>
vars == <<config, wifiConnected, buttons, pc, locals, board, history, response, saving, wrap>>

\* ------------------------------------------------------------ inputs

\* The lines the control channel may carry.
Lines ==
    { "WIFI_SSID home", "WIFI_PASS secret1",
      "BASE_URL http://10.0.0.5", "BASE_URL https://api.example.com",
      "API_KEY dXNlcjpwYXNz", "FLASH_RESET", "FOO BAR" }

NoPrefs == [k \in {} |-> ""]

\* What HTTPClient::GET() returns: the status of the response, or a negative code
\* when the transport failed (HTTPC_ERROR_CONNECTION_REFUSED is -1).
ResponseCodes == {200, 404, -1}

\* An unsigned long of 32 bits, as its two halves of 16 bits <<high, low>>.
Half == 2 ^ 16

Zero == <<0, 0>>

\* a + d and a - b of unsigned long: modulo 2^32.
Add32(a, d) ==
    LET low == a[2] + d[2]
        high == a[1] + d[1] + (low \div Half)
    IN  <<high % Half, low % Half>>

Sub32(a, b) ==
    LET low == a[2] - b[2]
        high == a[1] - b[1] - (IF low < 0 THEN 1 ELSE 0)
    IN  <<(high + Half) % Half, (low + Half) % Half>>

\* a < b and a >= n of unsigned long, n below 2^16.
Less32(a, b) == a[1] < b[1] \/ (a[1] = b[1] /\ a[2] < b[2])

AtLeast32(a, n) == a[1] > 0 \/ a[2] >= n

\* a % 1000 of unsigned long (2^16 % 1000 is 536).
Mod1000(a) == ((a[1] % 1000) * (Half % 1000) + a[2]) % 1000

\* ------------------------------------------------------------ libraries

\* Preferences::getString(key, default)
GetString(p, key, default) == IF key \in DOMAIN p THEN p[key] ELSE default

\* Preferences::putString(key, value)
PutString(p, key, value) ==
    [k \in DOMAIN p \cup {key} |-> IF k = key THEN value ELSE p[k]]

\* digitalWrite(pin, value) with an int: 0 is LOW, anything else HIGH.
Level(n) == IF n = 0 THEN "LOW" ELSE "HIGH"

\* delay(ms), or ms of the clock passing: every stamp is ms older.
Older(age, ms) == Min(age + ms, AgeCap)

\* WiFi.begin(ssid, pass): the station (re)starts associating.  A station that is
\* connected stays so when the credentials are the ones it holds, and drops the
\* link otherwise; the sketch does not tell the two apart.
WiFiBegin(status) ==
    IF status = "WL_CONNECTED" THEN {"WL_CONNECTED", "WL_DISCONNECTED"}
    ELSE {"WL_DISCONNECTED"}

\* ------------------------------------------------------------ the sketch

\* loadConfig(), lines 75-87: the four fields as read from the store.
LoadConfig(p) ==
    << GetString(p, "wifiSsid", ""), GetString(p, "wifiPass", ""),
       GetString(p, "baseUrl", ""), GetString(p, "apiKey", "") >>

\* saveConfig() without its last putString.
SaveConfigSkipsApiKey(p, ssid, pass, url, key) ==
    PutString(PutString(PutString(p, "wifiSsid", ssid), "wifiPass", pass), "baseUrl", url)

\* saveConfig(), lines 89-96: the store after the four fields are written.
SaveConfig(p, ssid, pass, url, key) ==
    PutString(PutString(PutString(PutString(p, "wifiSsid", ssid),
        "wifiPass", pass), "baseUrl", url), "apiKey", key)

\* The guard with the secret forgotten.
MissingCredentialsNameOnly(ssid, pass) == Len(ssid) = 0

\* connectToWifi(), line 99: the guard.
MissingCredentials(ssid, pass) == Len(ssid) = 0 \/ Len(pass) = 0

\* connectToWifi(), lines 98-107: the guard, and the start of the attempt.  It is
\* called with the indicator at ledNow and the flag at connNow, and `ret` is where
\* the caller goes on.
ConnectToWifi(ssid, pass, ledNow, connNow, ret) ==
    IF MissingCredentials(ssid, pass)
    THEN /\ pc' = ret
         /\ led' = ledNow /\ wifiConnected' = connNow
         /\ UNCHANGED <<wifiStatus, attempts, after>>
    ELSE /\ wifiStatus' \in WiFiBegin(wifiStatus)
         /\ attempts' = 0
         /\ after' = ret
         /\ pc' = "connect"
         /\ led' = ledNow /\ wifiConnected' = connNow

\* The wait loop with <= for < in its test of the budget.
ConnectWaitOneMore ==
    /\ pc = "connect"
    /\ wifiStatus # "WL_CONNECTED" /\ attempts <= ConnectAttempts
    /\ sincePress1' = Older(sincePress1, ConnectDelay)
    /\ sincePress2' = Older(sincePress2, ConnectDelay)
    /\ attempts' = attempts + 1
    /\ led' = Level(attempts' % 2)
    /\ UNCHANGED <<saving, wrap, arrived, response>>
    /\ UNCHANGED <<config, wifiConnected, button1Pressed, button2Pressed, pc, after,
                   blink, button2State, prefs, wifiStatus, pin1, pin2, serialIn, http,
                   received, calls, readAge2>>

\* connectToWifi(), lines 110-117: one turn of the wait loop.
ConnectWait ==
    /\ pc = "connect"
    /\ wifiStatus # "WL_CONNECTED" /\ attempts < ConnectAttempts
    /\ sincePress1' = Older(sincePress1, ConnectDelay)
    /\ sincePress2' = Older(sincePress2, ConnectDelay)
    /\ attempts' = attempts + 1
    /\ led' = Level(attempts' % 2)
    /\ UNCHANGED <<saving, wrap, arrived, response>>
    /\ UNCHANGED <<config, wifiConnected, button1Pressed, button2Pressed, pc, after,
                   blink, button2State, prefs, wifiStatus, pin1, pin2, serialIn, http,
                   received, calls, readAge2>>

\* The end of connectToWifi() with the secret dropped when the attempt failed.
ConnectDoneForgetsSecret ==
    /\ pc = "connect"
    /\ ~(wifiStatus # "WL_CONNECTED" /\ attempts < ConnectAttempts)
    /\ IF wifiStatus = "WL_CONNECTED"
       THEN wifiConnected' = TRUE /\ led' = "LOW" /\ wifiPass' = wifiPass
       ELSE wifiConnected' = FALSE /\ led' = led /\ wifiPass' = ""
    /\ pc' = after
    /\ attempts' = 0 /\ after' = "serial"
    /\ arrived' = IF arrived # "connecting" THEN arrived
                  ELSE IF wifiStatus = "WL_CONNECTED" THEN "connected" ELSE "failed"
    /\ UNCHANGED <<saving, wrap, response>>
    /\ UNCHANGED <<wifiSsid, baseUrl, apiKey, buttons, blink, button2State, prefs, wifiStatus,
                   pin1, pin2, serialIn, http, received, calls, readAge2>>

\* The end of connectToWifi() with the serial buffer emptied.
ConnectDoneFlushesSerial ==
    /\ pc = "connect"
    /\ ~(wifiStatus # "WL_CONNECTED" /\ attempts < ConnectAttempts)
    /\ IF wifiStatus = "WL_CONNECTED"
       THEN wifiConnected' = TRUE /\ led' = "LOW"
       ELSE wifiConnected' = FALSE /\ led' = led
    /\ pc' = after
    /\ attempts' = 0 /\ after' = "serial"
    /\ arrived' = IF arrived # "connecting" THEN arrived
                  ELSE IF wifiStatus = "WL_CONNECTED" THEN "connected" ELSE "failed"
    /\ serialIn' = <<>>
    /\ UNCHANGED <<saving, wrap, response>>
    /\ UNCHANGED <<config, buttons, blink, button2State, prefs, wifiStatus, pin1, pin2,
                   http, received, calls, readAge2>>

\* connectToWifi(), lines 110, 119-129: the loop ends and the outcome is recorded.
ConnectDone ==
    /\ pc = "connect"
    /\ ~(wifiStatus # "WL_CONNECTED" /\ attempts < ConnectAttempts)
    /\ IF wifiStatus = "WL_CONNECTED"
       THEN wifiConnected' = TRUE /\ led' = "LOW"
       ELSE wifiConnected' = FALSE /\ led' = led
    /\ pc' = after
    /\ attempts' = 0 /\ after' = "serial"
    /\ arrived' = IF arrived # "connecting" THEN arrived
                  ELSE IF wifiStatus = "WL_CONNECTED" THEN "connected" ELSE "failed"
    /\ UNCHANGED <<saving, wrap, response>>
    /\ UNCHANGED <<config, buttons, blink, button2State, prefs, wifiStatus, pin1, pin2,
                   serialIn, http, received, calls, readAge2>>

\* setup(), lines 30-60.
Setup ==
    /\ pc = "setup"
    /\ LET c == LoadConfig(prefs) IN
         /\ wifiSsid' = c[1] /\ wifiPass' = c[2] /\ baseUrl' = c[3] /\ apiKey' = c[4]
         /\ IF Len(c[1]) > 0 /\ Len(c[2]) > 0
            THEN ConnectToWifi(c[1], c[2], "LOW", wifiConnected, "serial")
            ELSE /\ pc' = "serial" /\ led' = "LOW"
                 /\ UNCHANGED <<wifiConnected, wifiStatus, attempts, after>>
    /\ UNCHANGED <<saving, wrap, arrived, response>>
    /\ UNCHANGED <<buttons, blink, button2State, prefs, pin1, pin2, serialIn, http,
                   received, calls, readAge2>>

\* checkSerialInput(), lines 138-163: which branch a trimmed line takes.
IsWifiSsid(command) == StartsWith(command, "WIFI_SSID ")
IsWifiPass(command) == StartsWith(command, "WIFI_PASS ")
IsBaseUrl(command) == StartsWith(command, "BASE_URL ")
IsApiKey(command) == StartsWith(command, "API_KEY ")

\* The test of line 158 as a test of the prefix.
IsFlashResetPrefix(command) == StartsWith(command, "FLASH_RESET")

IsFlashReset(command) == command = "FLASH_RESET"

\* The branches that end in saveConfig(), with the one of API_KEY forgetting it.
IsSetterButApiKey(command) ==
    IsWifiSsid(command) \/ IsWifiPass(command) \/ IsBaseUrl(command)

\* The branches that end in saveConfig().
IsSetter(command) ==
    IsWifiSsid(command) \/ IsWifiPass(command) \/ IsBaseUrl(command) \/ IsApiKey(command)

\* resetConfig() with the credential left in memory.
ClearedConfigKeepsApiKey == <<"", "", "", apiKey>>

\* resetConfig(), lines 176-179: the four fields after the reset.
ClearedConfig == <<"", "", "", "">>

\* checkSerialInput(), lines 138-160: the four fields after the command.
CommandConfig(command) ==
    IF IsWifiSsid(command) THEN <<Substring(command, 10), wifiPass, baseUrl, apiKey>>
    ELSE IF IsWifiPass(command) THEN <<wifiSsid, Substring(command, 10), baseUrl, apiKey>>
    ELSE IF IsBaseUrl(command) THEN <<wifiSsid, wifiPass, Substring(command, 9), apiKey>>
    ELSE IF IsApiKey(command) THEN <<wifiSsid, wifiPass, baseUrl, Substring(command, 8)>>
    ELSE IF IsFlashReset(command) THEN ClearedConfig
    ELSE config

\* checkSerialInput(), lines 141-159, and resetConfig(), line 175: the store after
\* the command.
CommandPrefs(command) ==
    LET c == CommandConfig(command) IN
    IF IsSetter(command) THEN SaveConfig(prefs, c[1], c[2], c[3], c[4])
    ELSE IF IsFlashReset(command) THEN NoPrefs
    ELSE prefs

\* The reconnect condition without its test of the command,
ReconnectsOnAnyCommand(command, ssid, pass) == Len(ssid) > 0 /\ Len(pass) > 0

\* and with WIFI_SSID forgotten in it.
ReconnectsOnSecretOnly(command, ssid, pass) ==
    IsWifiPass(command) /\ Len(ssid) > 0 /\ Len(pass) > 0

\* checkSerialInput(), lines 166-167: the reconnect condition.
Reconnects(command, ssid, pass) ==
    (IsWifiSsid(command) \/ IsWifiPass(command)) /\ Len(ssid) > 0 /\ Len(pass) > 0

\* checkSerialInput(), lines 131-171, with the start of resetConfig(), lines
\* 173-183, or of connectToWifi() when the command calls them.
CheckSerialInput ==
    /\ pc = "serial"
    /\ IF serialIn = <<>>
       THEN /\ pc' = "buttons"
            /\ received' = <<>>
            /\ UNCHANGED <<config, prefs, wifiConnected, wifiStatus, led, attempts, after,
                           blink, serialIn>>
       ELSE LET command == Trim(serialIn[1])
                c == CommandConfig(command)
            IN  /\ serialIn' = <<>>
                /\ received' = <<command>>
                /\ wifiSsid' = c[1] /\ wifiPass' = c[2]
                /\ baseUrl' = c[3] /\ apiKey' = c[4]
                /\ prefs' = CommandPrefs(command)
                /\ IF IsFlashReset(command)
                   THEN /\ wifiStatus' = "WL_IDLE_STATUS"
                        /\ wifiConnected' = FALSE
                        /\ blink' = 0
                        /\ pc' = "reset"
                        /\ UNCHANGED <<led, attempts, after>>
                   ELSE /\ blink' = blink
                        /\ IF Reconnects(command, c[1], c[2])
                           THEN ConnectToWifi(c[1], c[2], led, wifiConnected, "buttons")
                           ELSE /\ pc' = "buttons"
                                /\ UNCHANGED <<wifiConnected, wifiStatus, led, attempts,
                                               after>>
    /\ UNCHANGED <<saving, wrap, arrived, response>>
    /\ UNCHANGED <<buttons, button2State, pin1, pin2, http, calls, readAge2>>

\* resetConfig(), lines 186-191: one digitalWrite of the blink loop and the delay
\* after it.
ResetBlink ==
    /\ pc = "reset"
    /\ blink < 2 * ResetPulses
    /\ led' = IF blink % 2 = 0 THEN "HIGH" ELSE "LOW"
    /\ sincePress1' = Older(sincePress1, ResetDelay)
    /\ sincePress2' = Older(sincePress2, ResetDelay)
    /\ blink' = blink + 1
    /\ UNCHANGED <<saving, wrap, arrived, response>>
    /\ UNCHANGED <<config, wifiConnected, button1Pressed, button2Pressed, pc, after,
                   attempts, button2State, prefs, wifiStatus, pin1, pin2, serialIn, http,
                   received, calls, readAge2>>

\* resetConfig(), lines 186, 193-194: the blink loop ends; checkSerialInput returns
\* (the reconnect condition of line 166 is false for FLASH_RESET).
ResetDone ==
    /\ pc = "reset"
    /\ ~(blink < 2 * ResetPulses)
    /\ pc' = "buttons"
    /\ blink' = 0
    /\ arrived' = ""
    /\ UNCHANGED <<saving, wrap, response>>
    /\ UNCHANGED <<config, wifiConnected, buttons, after, attempts, button2State, board,
                   received, calls, readAge2>>

\* The preconditions without the flag.
CanCallIgnoresFlag(connected, url) == Len(url) # 0

\* makeApiCall(), lines 233-236: the preconditions.
CanCall(connected, url) == connected /\ Len(url) # 0

\* The request with the header attached whatever the credential.
RequestAlwaysAuth(endpoint) ==
    LET url == baseUrl \o endpoint IN
    [ url |-> url,
      secure |-> StartsWith(url, "https://"),
      headers |-> { <<"Authorization", "Basic " \o apiKey>> } ]

\* makeApiCall(), lines 238-263 and 279-291: the request that is sent.
Request(endpoint) ==
    LET url == baseUrl \o endpoint IN
    [ url |-> url,
      secure |-> StartsWith(url, "https://"),
      headers |-> IF Len(apiKey) > 0
                  THEN { <<"Authorization", "Basic " \o apiKey>> }
                  ELSE {} ]

\* The threshold test with > for >=.
QualifiesStrictly(age) == age > MIN_PRESS_TIME

\* checkButtonPressAndRelease(), lines 209 and 224: the threshold test.
Qualifies(age) == age >= MIN_PRESS_TIME

\* Button 2 with the mark left up when the call could not be made, so that the
\* next pass calls again.
Button2RetriesLater(state2, callsNow, ledNow) ==
    LET arm == state2 = "LOW" /\ ~button2Pressed
        age == IF arm THEN 0 ELSE sincePress2
        down == button2Pressed \/ arm
        released == state2 = "HIGH" /\ down
        fire == released /\ Qualifies(age)
    IN  /\ sincePress2' = age
        /\ calls' = IF fire THEN Append(callsNow, "/pause") ELSE callsNow
        /\ IF fire /\ CanCall(wifiConnected, baseUrl)
           THEN /\ http' = <<Request("/pause")>>
                /\ led' = "HIGH"
                /\ button2Pressed' = down
                /\ pc' = "get2"
           ELSE /\ http' = <<>>
                /\ led' = ledNow
                /\ button2Pressed' = IF released /\ ~fire THEN FALSE ELSE down
                /\ pc' = "led"

\* checkButtonPressAndRelease(), lines 216-229, from the level state2 read at line
\* 199, with makeApiCall("/pause") up to its GET.  callsNow and ledNow are the
\* calls made and the indicator when line 216 is reached.
Button2(state2, callsNow, ledNow) ==
    LET arm == state2 = "LOW" /\ ~button2Pressed
        age == IF arm THEN 0 ELSE sincePress2
        down == button2Pressed \/ arm
        released == state2 = "HIGH" /\ down
        fire == released /\ Qualifies(age)
    IN  /\ sincePress2' = age
        /\ calls' = IF fire THEN Append(callsNow, "/pause") ELSE callsNow
        /\ IF fire /\ CanCall(wifiConnected, baseUrl)
           THEN /\ http' = <<Request("/pause")>>
                /\ led' = "HIGH"
                /\ button2Pressed' = down
                /\ pc' = "get2"
           ELSE /\ http' = <<>>
                /\ led' = ledNow
                /\ button2Pressed' = IF released THEN FALSE ELSE down
                /\ pc' = "led"

\* checkButtonPressAndRelease(), lines 196-214, with makeApiCall("/play") up to its
\* GET, and the rest of the function when that call sends nothing.
CheckButtons ==
    /\ pc = "buttons"
    /\ LET arm == pin1 = "LOW" /\ ~button1Pressed
           age == IF arm THEN 0 ELSE sincePress1
           down == button1Pressed \/ arm
           released == pin1 = "HIGH" /\ down
           fire == released /\ Qualifies(age)
       IN  /\ sincePress1' = age
           /\ IF fire /\ CanCall(wifiConnected, baseUrl)
              THEN /\ http' = <<Request("/play")>>
                   /\ led' = "HIGH"
                   /\ button1Pressed' = down
                   /\ calls' = Append(calls, "/play")
                   /\ button2State' = pin2
                   /\ readAge2' = sincePress2
                   /\ pc' = "get1"
                   /\ UNCHANGED <<button2Pressed, sincePress2>>
              ELSE /\ button1Pressed' = IF released THEN FALSE ELSE down
                   /\ Button2(pin2, IF fire THEN Append(calls, "/play") ELSE calls, led)
                   /\ UNCHANGED <<button2State, readAge2>>
    /\ UNCHANGED <<saving, wrap, arrived, response>>
    /\ UNCHANGED <<config, wifiConnected, after, attempts, blink, prefs, wifiStatus, pin1,
                   pin2, serialIn, received>>

\* makeApiCall("/play"), lines 263-276 and 291-304: the GET returns; then lines
\* 213-229 of checkButtonPressAndRelease().
GetReturn1 ==
    /\ pc = "get1"
    /\ \E httpResponseCode \in ResponseCodes : response' = <<httpResponseCode>>
    /\ button1Pressed' = FALSE
    /\ Button2(button2State, calls, "LOW")
    /\ button2State' = "HIGH"
    /\ readAge2' = 0
    /\ UNCHANGED <<saving, wrap, arrived>>
    /\ UNCHANGED <<config, wifiConnected, sincePress1, after, attempts, blink, prefs,
                   wifiStatus, pin1, pin2, serialIn, received>>

\* The return of the GET with the indicator taken down in the branch of a
\* response only.
GetReturn2OffOnResponse ==
    /\ pc = "get2"
    /\ \E httpResponseCode \in ResponseCodes :
          /\ response' = <<httpResponseCode>>
          /\ led' = IF httpResponseCode > 0 THEN "LOW" ELSE led
    /\ http' = <<>>
    /\ button2Pressed' = FALSE
    /\ pc' = "led"
    /\ UNCHANGED <<saving, wrap, arrived>>
    /\ UNCHANGED <<config, wifiConnected, button1Pressed, sincePress1, sincePress2,
                   locals, prefs, wifiStatus, pin1, pin2, serialIn, received, calls, readAge2>>

\* makeApiCall("/pause"), lines 263-276 and 291-304: the GET returns; then lines
\* 228-230 of checkButtonPressAndRelease().
GetReturn2 ==
    /\ pc = "get2"
    /\ \E httpResponseCode \in ResponseCodes : response' = <<httpResponseCode>>
    /\ http' = <<>>
    /\ led' = "LOW"
    /\ button2Pressed' = FALSE
    /\ pc' = "led"
    /\ UNCHANGED <<saving, wrap, arrived>>
    /\ UNCHANGED <<config, wifiConnected, button1Pressed, sincePress1, sincePress2,
                   locals, prefs, wifiStatus, pin1, pin2, serialIn, received, calls, readAge2>>

\* The blink of loop() without its test of the flag.
LedRefreshWhateverFlag ==
    /\ pc = "led"
    /\ led' \in {"HIGH", "LOW"}
    /\ pc' = "serial"
    /\ received' = <<>>
    /\ calls' = <<>>
    /\ response' = <<>>
    /\ UNCHANGED <<saving, wrap, arrived>>
    /\ UNCHANGED <<config, wifiConnected, buttons, locals, prefs, wifiStatus, pin1, pin2,
                   serialIn, http, readAge2>>

\* loop(), lines 69-73: the blink while the flag is down.  The level written is
\* millis() % 1000 < 50, an input.  The pass of loop() ends here.
LedRefresh ==
    /\ pc = "led"
    /\ IF ~wifiConnected THEN led' \in {"HIGH", "LOW"} ELSE led' = led
    /\ pc' = "serial"
    /\ received' = <<>>
    /\ calls' = <<>>
    /\ response' = <<>>
    /\ UNCHANGED <<saving, wrap, arrived>>
    /\ UNCHANGED <<config, wifiConnected, buttons, locals, prefs, wifiStatus, pin1, pin2,
                   serialIn, http, readAge2>>

\* ------------------------------------------------------------ the environment

\* The points where the sketch reads its environment next.
Listening == pc \in {"serial", "connect", "reset", "get1", "get2"}

Press1 ==
    /\ Listening /\ pin1 = "HIGH" /\ pin1' = "LOW"
    /\ UNCHANGED <<saving, wrap, arrived, response>>
    /\ UNCHANGED <<config, wifiConnected, buttons, pc, locals, prefs, wifiStatus, led,
                   pin2, serialIn, http, received, calls, readAge2>>

Release1 ==
    /\ Listening /\ pin1 = "LOW" /\ pin1' = "HIGH"
    /\ UNCHANGED <<saving, wrap, arrived, response>>
    /\ UNCHANGED <<config, wifiConnected, buttons, pc, locals, prefs, wifiStatus, led,
                   pin2, serialIn, http, received, calls, readAge2>>

Press2 ==
    /\ Listening /\ pin2 = "HIGH" /\ pin2' = "LOW"
    /\ UNCHANGED <<saving, wrap, arrived, response>>
    /\ UNCHANGED <<config, wifiConnected, buttons, pc, locals, prefs, wifiStatus, led,
                   pin1, serialIn, http, received, calls, readAge2>>

Release2 ==
    /\ Listening /\ pin2 = "LOW" /\ pin2' = "HIGH"
    /\ UNCHANGED <<saving, wrap, arrived, response>>
    /\ UNCHANGED <<config, wifiConnected, buttons, pc, locals, prefs, wifiStatus, led,
                   pin1, serialIn, http, received, calls, readAge2>>

\* The clock moves between two passes of loop() and while a GET is pending.
Tick ==
    /\ pc \in {"serial", "get1", "get2"}
    /\ sincePress1' = Older(sincePress1, TickMs)
    /\ sincePress2' = Older(sincePress2, TickMs)
    /\ UNCHANGED <<saving, wrap, arrived, response>>
    /\ UNCHANGED <<config, wifiConnected, button1Pressed, button2Pressed, pc, locals,
                   board, received, calls, readAge2>>

\* A complete line arrives on Serial.
SerialArrive ==
    /\ Listening /\ serialIn = <<>>
    /\ \E line \in Lines :
          /\ serialIn' = <<line>>
          /\ arrived' = IF pc = "connect" /\ IsFlashReset(Trim(line)) THEN "connecting" ELSE arrived
    /\ UNCHANGED <<saving, wrap, response>>
    /\ UNCHANGED <<config, wifiConnected, buttons, pc, locals, prefs, wifiStatus, led,
                   pin1, pin2, http, received, calls, readAge2>>

\* The station, started by WiFi.begin, associates.
LinkUp ==
    /\ Listening /\ wifiStatus = "WL_DISCONNECTED" /\ wifiStatus' = "WL_CONNECTED"
    /\ UNCHANGED <<saving, wrap, arrived, response>>
    /\ UNCHANGED <<config, wifiConnected, buttons, pc, locals, prefs, led, pin1, pin2,
                   serialIn, http, received, calls, readAge2>>

\* The link is lost.
LinkDown ==
    /\ Listening /\ wifiStatus = "WL_CONNECTED" /\ wifiStatus' = "WL_DISCONNECTED"
    /\ UNCHANGED <<saving, wrap, arrived, response>>
    /\ UNCHANGED <<config, wifiConnected, buttons, pc, locals, prefs, led, pin1, pin2,
                   serialIn, http, received, calls, readAge2>>

\* The sketch starts again: the globals take their initializers (lines 11-28), the
\* counter of millis() starts at 0, the store and the buttons stay as they are.
Reboot ==
    /\ wifiSsid' = "" /\ wifiPass' = "" /\ baseUrl' = "" /\ apiKey' = ""
    /\ wifiConnected' = FALSE
    /\ button1Pressed' = FALSE /\ button2Pressed' = FALSE
    /\ sincePress1' = 0 /\ sincePress2' = 0
    /\ pc' = "setup"
    /\ after' = "serial" /\ attempts' = 0 /\ blink' = 0 /\ button2State' = "HIGH"
    /\ wifiStatus' = "WL_IDLE_STATUS"
    /\ led' = "LOW"
    /\ serialIn' = <<>>
    /\ http' = <<>>
    /\ received' = <<>>
    /\ calls' = <<>>
    /\ readAge2' = 0
    /\ response' = <<>>
    /\ arrived' = ""
    /\ written' = 0 /\ before' = <<>>
    /\ millis' = Zero /\ pressStartTime1' = Zero /\ held' = Zero
    /\ UNCHANGED <<prefs, pin1, pin2>>

\* Power is lost and comes back.
PowerCycle == Listening /\ Reboot

\* ------------------------------------------------------------ the machine

\* Power-on with an empty store and both buttons released.
Init ==
    /\ wifiSsid = "" /\ wifiPass = "" /\ baseUrl = "" /\ apiKey = ""
    /\ wifiConnected = FALSE
    /\ button1Pressed = FALSE /\ button2Pressed = FALSE
    /\ sincePress1 = 0 /\ sincePress2 = 0
    /\ pc = "setup"
    /\ after = "serial" /\ attempts = 0 /\ blink = 0 /\ button2State = "HIGH"
    /\ prefs = NoPrefs
    /\ wifiStatus = "WL_IDLE_STATUS"
    /\ led = "LOW"
    /\ pin1 = "HIGH" /\ pin2 = "HIGH"
    /\ serialIn = <<>>
    /\ http = <<>>
    /\ received = <<>>
    /\ calls = <<>>
    /\ readAge2 = 0
    /\ response = <<>>
    /\ arrived = ""
    /\ written = 0 /\ before = <<>>
    /\ millis = Zero /\ pressStartTime1 = Zero /\ held = Zero

Sketch ==
    \/ Setup \/ CheckSerialInput \/ ConnectWait \/ ConnectDone \/ ResetBlink \/ ResetDone
    \/ CheckButtons \/ GetReturn1 \/ GetReturn2 \/ LedRefresh

Environment ==
    \/ Press1 \/ Release1 \/ Press2 \/ Release2 \/ Tick \/ SerialArrive
    \/ LinkUp \/ LinkDown \/ PowerCycle

Next == Sketch \/ Environment

Spec == Init /\ [][Next]_vars

\* The sketch and its environment with button 2 left alone (its pin stays high),
\* for the properties that say what the sketch gets to in the end.
SketchFair ==
    \/ Setup \/ CheckSerialInput \/ ConnectWait \/ ConnectDone \/ ResetBlink \/ ResetDone
    \/ CheckButtons \/ GetReturn1 \/ LedRefresh

NextFair ==
    \/ SketchFair
    \/ Press1 \/ Release1 \/ Tick \/ SerialArrive \/ LinkUp \/ LinkDown \/ PowerCycle

\* The processor runs: whatever the environment does, the sketch takes its next
\* step (a wait of connectToWifi() ends, a GET returns, loop() is called again).
SpecFair == Init /\ [][NextFair]_vars /\ WF_vars(SketchFair)

\* ------------------------------------------------------------ connectToWifi alone

\* connectToWifi() called on its own: the sketch calls it only with both
\* credentials set (lines 49, 166-167), so the guard of line 99 is decided here,
\* with the globals drawn from the values they take.
InitConnect ==
    /\ wifiSsid \in {"", "home"} /\ wifiPass \in {"", "secret1"}
    /\ baseUrl \in {"", "http://10.0.0.5"} /\ apiKey \in {"", "dXNlcjpwYXNz"}
    /\ wifiConnected \in BOOLEAN
    /\ wifiStatus \in {"WL_IDLE_STATUS", "WL_DISCONNECTED", "WL_CONNECTED"}
    /\ wifiConnected => wifiStatus # "WL_IDLE_STATUS"
    /\ led \in {"LOW", "HIGH"}
    /\ prefs = SaveConfig(NoPrefs, wifiSsid, wifiPass, baseUrl, apiKey)
    /\ button1Pressed = FALSE /\ button2Pressed = FALSE
    /\ sincePress1 = 0 /\ sincePress2 = 0
    /\ pc = "call"
    /\ after = "serial" /\ attempts = 0 /\ blink = 0 /\ button2State = "HIGH"
    /\ pin1 = "HIGH" /\ pin2 = "HIGH"
    /\ serialIn = <<>>
    /\ http = <<>>
    /\ received = <<>>
    /\ calls = <<>>
    /\ readAge2 = 0
    /\ response = <<>>
    /\ arrived = ""
    /\ written = 0 /\ before = <<>>
    /\ millis = Zero /\ pressStartTime1 = Zero /\ held = Zero

CallConnectToWifi ==
    /\ pc = "call"
    /\ ConnectToWifi(wifiSsid, wifiPass, led, wifiConnected, "done")
    /\ UNCHANGED <<saving, wrap, response>>
    /\ UNCHANGED <<config, buttons, blink, button2State, prefs, pin1, pin2, serialIn,
                   http, history>>

NextConnect == CallConnectToWifi \/ ConnectWait \/ ConnectDone \/ LinkUp \/ LinkDown

SpecConnect == InitConnect /\ [][NextConnect]_vars

\* ------------------------------------------------------------ checkSerialInput alone

\* Lines as an operator may type them: the commands, and keywords alone, with
\* spaces around, with nothing or something else after them, in lower case.
CommandLines ==
    Lines \cup
    { "WIFI_SSID", "WIFI_PASS   ", "BASE_URL", "API_KEY", "API_KEY  dXNlcjpwYXNz",
      "  BASE_URL http://10.0.0.5  ", "FLASH_RESET now", " FLASH_RESET ",
      "wifi_ssid home" }

\* One pass of checkSerialInput() with a line waiting, from the states loop() can
\* be in when it calls it: the fields are unset or set, the store holds them (it is
\* empty until something is set), the flag is up only with both credentials set
\* and then the indicator is low, and the station was started if both are set.
InitCommand ==
    /\ wifiSsid \in {"", "home"} /\ wifiPass \in {"", "secret1"}
    /\ baseUrl \in {"", "http://10.0.0.5"} /\ apiKey \in {"", "dXNlcjpwYXNz"}
    /\ prefs = IF config = <<"", "", "", "">> THEN NoPrefs
               ELSE SaveConfig(NoPrefs, wifiSsid, wifiPass, baseUrl, apiKey)
    /\ wifiConnected \in BOOLEAN
    /\ wifiConnected => (wifiSsid # "" /\ wifiPass # "")
    /\ wifiStatus \in {"WL_IDLE_STATUS", "WL_DISCONNECTED", "WL_CONNECTED"}
    /\ (wifiStatus = "WL_IDLE_STATUS") <=> (wifiSsid = "" \/ wifiPass = "")
    /\ led \in {"LOW", "HIGH"}
    /\ wifiConnected => led = "LOW"
    /\ button1Pressed = FALSE /\ button2Pressed = FALSE
    /\ sincePress1 = 0 /\ sincePress2 = 0
    /\ pc = "serial"
    /\ after = "serial" /\ attempts = 0 /\ blink = 0 /\ button2State = "HIGH"
    /\ pin1 = "HIGH" /\ pin2 = "HIGH"
    /\ serialIn \in { <<line>> : line \in CommandLines }
    /\ http = <<>>
    /\ received = <<>>
    /\ calls = <<>>
    /\ readAge2 = 0
    /\ response = <<>>
    /\ arrived = ""
    /\ written = 0 /\ before = <<>>
    /\ millis = Zero /\ pressStartTime1 = Zero /\ held = Zero

NextCommand ==
    \/ CheckSerialInput \/ ConnectWait \/ ConnectDone \/ ResetBlink \/ ResetDone
    \/ LinkUp \/ LinkDown

SpecCommand == InitCommand /\ [][NextCommand]_vars

\* ------------------------------------------------------------ the counter at its width

\* The threshold test as a deadline: millis() >= pressStartTime1 + MIN_PRESS_TIME.
QualifiesAtDeadline(now, start) == ~Less32(now, Add32(start, <<0, MIN_PRESS_TIME>>))

\* checkButtonPressAndRelease(), line 209: millis() - pressStartTime1 >=
\* MIN_PRESS_TIME, in unsigned long.
QualifiesAt(now, start) == AtLeast32(Sub32(now, start), MIN_PRESS_TIME)

\* Where the counter stands when the press begins: far from its wrap, just before
\* it, at it, and at the wrap of a signed long.
WrapStarts ==
    { Zero, <<0, 1000>>, <<Half \div 2 - 1, Half - 1>>, <<Half \div 2 - 1, Half - 30>>,
      <<Half - 1, Half - 100>>, <<Half - 1, Half - 75>>, <<Half - 1, Half - 50>>,
      <<Half - 1, Half - 49>>, <<Half - 1, Half - 25>>, <<Half - 1, Half - 1>> }

\* The times that pass between two reads of the counter: some ms,
ShortTimes == { <<0, 1>>, <<0, 24>>, <<0, 25>>, <<0, 49>> }

\* or days (2^31 ms, and 2^32 ms less what ShortHold allows before).
LongTimes == { <<Half \div 2, 0>>, <<Half - 1, Half - 1 - ShortHold>> }

\* d ms as the ages count them.
Ms(d) == IF d[1] > 0 THEN AgeCap ELSE Min(d[2], AgeCap)

\* Button 1 is down and loop() runs with the flag down, no line waiting and
\* button 2 idle.
InitWrap ==
    /\ wifiSsid = "" /\ wifiPass = "" /\ baseUrl = "" /\ apiKey = ""
    /\ wifiConnected = FALSE
    /\ button1Pressed = FALSE /\ button2Pressed = FALSE
    /\ sincePress1 = 0 /\ sincePress2 = 0
    /\ pc = "serial"
    /\ after = "serial" /\ attempts = 0 /\ blink = 0 /\ button2State = "HIGH"
    /\ prefs = NoPrefs
    /\ wifiStatus = "WL_IDLE_STATUS"
    /\ led = "LOW"
    /\ pin1 = "LOW" /\ pin2 = "HIGH"
    /\ serialIn = <<>>
    /\ http = <<>>
    /\ received = <<>>
    /\ calls = <<>>
    /\ readAge2 = 0
    /\ response = <<>>
    /\ arrived = ""
    /\ written = 0 /\ before = <<>>
    /\ millis \in WrapStarts /\ pressStartTime1 = Zero /\ held = Zero

\* One pass of loop(), lines 62-73, with the stamp of button 1 and the counter as
\* the unsigned longs they are: checkSerialInput() finds no line; lines 198-214
\* for button 1, where makeApiCall("/play") returns at line 235; button 2 is up and
\* not armed; the blink of line 71.  `calls` is what this pass called.
LoopAtWidth ==
    /\ pc = "serial" /\ serialIn = <<>> /\ ~wifiConnected
    /\ pin2 = "HIGH" /\ ~button2Pressed
    /\ LET arm == pin1 = "LOW" /\ ~button1Pressed
           start == IF arm THEN millis ELSE pressStartTime1
           down == button1Pressed \/ arm
           released == pin1 = "HIGH" /\ down
           fire == released /\ QualifiesAt(millis, start)
       IN  /\ pressStartTime1' = start
           /\ held' = IF arm THEN Zero ELSE held
           /\ sincePress1' = IF arm THEN 0 ELSE sincePress1
           /\ button1Pressed' = IF released THEN FALSE ELSE down
           /\ calls' = IF fire THEN <<"/play">> ELSE <<>>
    /\ led' = IF Mod1000(millis) < 50 THEN "HIGH" ELSE "LOW"
    /\ UNCHANGED <<config, wifiConnected, button2Pressed, sincePress2, pc, locals, prefs,
                   wifiStatus, pin1, pin2, serialIn, http, received, readAge2, arrived,
                   response, saving, millis>>

\* Time passes while button 1 is down and armed: some ms while the press is short,
\* or days, short of a whole turn of the counter.
TimePasses ==
    /\ pc = "serial" /\ pin1 = "LOW" /\ button1Pressed
    /\ \E d \in ShortTimes \cup LongTimes :
          /\ d \in ShortTimes => (held[1] = 0 /\ held[2] + d[2] <= ShortHold)
          /\ d \in LongTimes => Less32(held, Sub32(Zero, d))
          /\ millis' = Add32(millis, d)
          /\ held' = Add32(held, d)
          /\ sincePress1' = Older(sincePress1, Ms(d))
    /\ UNCHANGED <<config, wifiConnected, button1Pressed, button2Pressed, sincePress2, pc,
                   locals, board, history, response, saving, pressStartTime1>>

NextWrap == LoopAtWidth \/ TimePasses \/ Release1

SpecWrap == InitWrap /\ [][NextWrap]_vars

\* ------------------------------------------------------------ saveConfig by steps

\* saveConfig(), lines 90-93: the keys in the order they are written; the n-th
\* takes the n-th of the four fields.
SaveKeys == <<"wifiSsid", "wifiPass", "baseUrl", "apiKey">>

\* checkSerialInput(), lines 132-140 (143-144, 148-149, 153-154): a setter is read,
\* its field is set in memory and saveConfig() is entered.
ReadSetter ==
    /\ pc = "serial" /\ serialIn # <<>> /\ IsSetter(Trim(serialIn[1]))
    /\ LET command == Trim(serialIn[1])
           c == CommandConfig(command)
       IN  /\ serialIn' = <<>>
           /\ received' = <<command>>
           /\ wifiSsid' = c[1] /\ wifiPass' = c[2] /\ baseUrl' = c[3] /\ apiKey' = c[4]
    /\ before' = config
    /\ written' = 0
    /\ pc' = "save"
    /\ UNCHANGED <<wifiConnected, buttons, locals, prefs, wifiStatus, led, pin1, pin2, http,
                   calls, readAge2, arrived, response, wrap>>

\* saveConfig(), lines 90-93: one putString.  Preferences writes a key as one entry
\* of the NVS partition, which holds the old value or the new one when power is
\* lost during the write.
PutField ==
    /\ pc = "save" /\ written < Len(SaveKeys)
    /\ prefs' = PutString(prefs, SaveKeys[written + 1], config[written + 1])
    /\ written' = written + 1
    /\ UNCHANGED <<config, wifiConnected, buttons, pc, locals, wifiStatus, led, pin1, pin2,
                   serialIn, http, history, response, before, wrap>>

\* saveConfig() returns, lines 95-96; then lines 166-169 of checkSerialInput().
\* `received` holds the local `command`.
SaveDone ==
    /\ pc = "save" /\ written = Len(SaveKeys)
    /\ written' = 0 /\ before' = <<>>
    /\ IF Reconnects(received[1], wifiSsid, wifiPass)
       THEN ConnectToWifi(wifiSsid, wifiPass, led, wifiConnected, "buttons")
       ELSE /\ pc' = "buttons"
            /\ UNCHANGED <<wifiConnected, wifiStatus, led, attempts, after>>
    /\ UNCHANGED <<config, buttons, blink, button2State, prefs, pin1, pin2, serialIn, http,
                   history, response, wrap>>

\* checkSerialInput() when no line waits, or one that does not call saveConfig().
CheckSerialOther ==
    /\ ~(serialIn # <<>> /\ IsSetter(Trim(serialIn[1])))
    /\ CheckSerialInput

\* Power is lost inside saveConfig().
PowerLossInSave == pc = "save" /\ Reboot

\* The sketch with saveConfig() by steps and the buttons left alone.
NextSave ==
    \/ Setup \/ ReadSetter \/ PutField \/ SaveDone \/ CheckSerialOther
    \/ ConnectWait \/ ConnectDone \/ ResetBlink \/ ResetDone \/ CheckButtons \/ LedRefresh
    \/ SerialArrive \/ LinkUp \/ LinkDown \/ PowerCycle \/ PowerLossInSave

SpecSave == Init /\ [][NextSave]_vars

\* ------------------------------------------------------------ properties

Empty == <<"", "", "", "">>

\* How often endpoint e was called in this pass of loop().
Count(e) == Cardinality({ i \in DOMAIN calls : calls[i] = e })
CountNext(e) == Cardinality({ i \in DOMAIN calls' : calls'[i] = e })

\* A step in which makeApiCall is called.
Dispatches == Len(calls') > Len(calls)

\* A step that sends a GET.
SendsGet == http' # <<>> /\ http' # http

\* C1: makeApiCall sends a GET only when, as it is called, the flag wifiConnected
\* is up and the base address is not empty; called with either precondition
\* failing, it returns with no GET sent and with the configuration, the store, the
\* flag and the indicator as they were.
C1_DispatchNeedsConnectionAndBase ==
    [][ /\ SendsGet => wifiConnected /\ baseUrl # ""
        /\ (Dispatches /\ ~(wifiConnected /\ baseUrl # ""))
              => /\ http' = <<>> /\ http = <<>>
                 /\ pc' = "led"
                 /\ config' = config /\ prefs' = prefs
                 /\ wifiConnected' = wifiConnected
                 /\ led' = led ]_vars

\* C1, the case: makeApiCall was called for both buttons while the flag was down,
\* and returned.
C1_Witness ==
    /\ pc = "led" /\ calls = <<"/play", "/pause">>
    /\ ~wifiConnected /\ baseUrl # "" /\ http = <<>>

\* A release of button 1 as checkButtonPressAndRelease reads it: the pin is high
\* and the press was armed.
Release1Read == pc = "buttons" /\ pin1 = "HIGH" /\ button1Pressed

\* A release of button 2 as line 199 reads it, when line 216 is reached in the same
\* step,
Release2Read ==
    pc = "buttons" /\ pc' # "get1" /\ pin2 = "HIGH" /\ button2Pressed

\* and when line 216 is reached after the GET of button 1.
Release2Late ==
    pc = "get1" /\ pc' \in {"led", "get2"} /\ button2State = "HIGH" /\ button2Pressed

\* C2: a press whose release is read less than 50 ms after the press was armed
\* emits no event, whatever ran in between.
C2_ShortPressDropped ==
    [][ /\ (Release1Read /\ sincePress1 < 50) => CountNext("/play") = Count("/play")
        /\ (Release2Read /\ sincePress2 < 50) => CountNext("/pause") = Count("/pause")
        /\ (Release2Late /\ readAge2 < 50) => CountNext("/pause") = Count("/pause")
      ]_vars

C4_ConnectNoOpWithoutCredentials ==
    [][ (pc = "call" /\ (wifiSsid = "" \/ wifiPass = ""))
          => /\ pc' = "done"
             /\ wifiStatus' = wifiStatus /\ attempts' = attempts
             /\ wifiConnected' = wifiConnected
             /\ config' = config /\ prefs' = prefs
             /\ led' = led ]_vars

\* C4, the case: the call has returned, with a secret and no name, the flag up and
\* the indicator on.
C4_Witness ==
    /\ pc = "done" /\ wifiSsid = "" /\ wifiPass # ""
    /\ wifiConnected /\ led = "HIGH" /\ wifiStatus = "WL_DISCONNECTED"

\* C5: whenever the sketch is past setup(), loadConfig() on the store returns the
\* four fields held in memory.
C5_SaveLoadRoundTrip == pc # "setup" => LoadConfig(prefs) = config

\* C5, the case: all four fields were set and saved, power was cycled, and setup()
\* has loaded them and started to connect with them.
C5_Witness ==
    /\ pc = "connect" /\ after = "serial"
    /\ config = <<"home", "secret1", "https://api.example.com", "dXNlcjpwYXNz">>

\* A pass of checkSerialInput() that reads a line.
Processes == pc = "serial" /\ serialIn # <<>> /\ pc' \notin {"serial", "setup"}

\* C6: FLASH_RESET, from any state, empties the four fields in memory and the store
\* (a load returns four empty strings), takes the flag down and the station off,
\* and writes the indicator high, low, three times over, before checkSerialInput
\* goes on; the state it leaves does not depend on the state it found.
C6_FlashReset ==
    [][ /\ (Processes /\ Trim(serialIn[1]) = "FLASH_RESET") => (pc' = "reset" /\ blink' = 0)
        /\ pc' = "reset"
             => /\ config' = Empty /\ LoadConfig(prefs') = Empty
                /\ ~wifiConnected' /\ wifiStatus' = "WL_IDLE_STATUS"
        /\ (pc = "reset" /\ pc' = "reset" /\ blink' # blink)
             => /\ blink' = blink + 1
                /\ led' = IF blink' % 2 = 1 THEN "HIGH" ELSE "LOW"
        /\ (pc = "reset" /\ pc' = "buttons")
             => /\ blink = 6 /\ led' = "LOW"
                /\ config' = Empty /\ LoadConfig(prefs') = Empty
                /\ ~wifiConnected' /\ wifiStatus' = "WL_IDLE_STATUS" ]_vars

\* C6, the case: the three pulses of a reset are done, and the next FLASH_RESET is
\* waiting.
C6_Witness ==
    /\ pc = "reset" /\ blink = 6 /\ led = "LOW"
    /\ serialIn = <<"FLASH_RESET">>

\* The keywords of the control channel.
Keywords == { "WIFI_SSID", "WIFI_PASS", "BASE_URL", "API_KEY", "FLASH_RESET" }

Unrecognized(line) == \A k \in Keywords : ~StartsWith(Trim(line), k)

\* C7: a line that starts with no keyword changes nothing: the fields in memory,
\* the store, the flag, the station, the indicator and the button records stay,
\* and the pass goes on to the buttons.
C7_UnknownCommandChangesNothing ==
    [][ (Processes /\ Unrecognized(serialIn[1]))
          => /\ config' = config /\ prefs' = prefs
             /\ wifiConnected' = wifiConnected /\ wifiStatus' = wifiStatus
             /\ led' = led /\ buttons' = buttons
             /\ pc' = "buttons" ]_vars

\* C7, the case: FOO BAR was processed with credentials set and the flag up.
C7_Witness ==
    /\ pc = "buttons" /\ received = <<"FOO BAR">>
    /\ wifiConnected /\ baseUrl # ""

\* C8: WIFI_SSID and WIFI_PASS start a connection attempt exactly when both
\* credentials are non-empty after the update; BASE_URL and API_KEY set their
\* field, save, and neither start an attempt nor touch the flag or the station.
C8_ReconnectOnlyOnCredentials ==
    [][ Processes =>
          LET c == Trim(serialIn[1]) IN
          /\ (StartsWith(c, "WIFI_SSID ") \/ StartsWith(c, "WIFI_PASS "))
                => /\ (pc' = "connect") <=> (wifiSsid' # "" /\ wifiPass' # "")
                   /\ pc' = "connect" => (attempts' = 0 /\ after' = "buttons")
                   /\ pc' # "connect" => (pc' = "buttons" /\ wifiStatus' = wifiStatus)
                   /\ wifiConnected' = wifiConnected
          /\ StartsWith(c, "BASE_URL ")
                => /\ config' = <<wifiSsid, wifiPass, SubSeq(c, 10, Len(c)), apiKey>>
                   /\ LoadConfig(prefs') = config'
                   /\ pc' = "buttons"
                   /\ wifiConnected' = wifiConnected /\ wifiStatus' = wifiStatus
          /\ StartsWith(c, "API_KEY ")
                => /\ config' = <<wifiSsid, wifiPass, baseUrl, SubSeq(c, 9, Len(c))>>
                   /\ LoadConfig(prefs') = config'
                   /\ pc' = "buttons"
                   /\ wifiConnected' = wifiConnected /\ wifiStatus' = wifiStatus ]_vars

\* C8, the case: WIFI_SSID arrived with the secret already set and the attempt has
\* started.
C8_Witness ==
    /\ pc = "connect" /\ attempts = 0 /\ after = "buttons"
    /\ received = <<"WIFI_SSID home">>

\* C9: a call that passes the preconditions sends one GET to the base address
\* followed by the path of the button, with the header Authorization: Basic
\* <credential> exactly when the credential is not empty, over the secure client
\* exactly when the URL starts with https://; when the GET returns nothing is sent
\* again for that call.
C9_OneGetWithAuthAndScheme ==
    [][ /\ (Dispatches /\ wifiConnected /\ baseUrl # "") => SendsGet
        /\ SendsGet
             => LET e == IF pc' = "get1" THEN "/play" ELSE "/pause"
                    r == http'[1]
                IN  /\ Len(http') = 1 /\ pc' \in {"get1", "get2"}
                    /\ calls'[Len(calls')] = e
                    /\ r.url = baseUrl \o e
                    /\ apiKey # "" => r.headers = { <<"Authorization", "Basic " \o apiKey>> }
                    /\ apiKey = "" => r.headers = {}
                    /\ r.secure <=> (Len(r.url) >= 8 /\ SubSeq(r.url, 1, 8) = "https://")
        /\ (pc = "get1" /\ pc' # "get1") => (pc' \in {"led", "get2", "setup"} /\ http' # http)
        /\ (pc = "get2" /\ pc' # "get2") => (pc' \in {"led", "setup"} /\ http' = <<>>)
        /\ (pc \in {"get1", "get2"} /\ pc' = pc) => http' = http ]_vars

\* C9, the case: /play is being sent over the secure client with the header.
C9_Witness ==
    /\ pc = "get1"
    /\ http = << [ url |-> "https://api.example.com/play", secure |-> TRUE,
                   headers |-> { <<"Authorization", "Basic dXNlcjpwYXNz">> } ] >>

\* C10: the flag follows the link: when a pass reaches the buttons with the link
\* down, the flag is down and no GET is sent.
C10_FlagFollowsLink ==
    [][ (pc = "buttons" /\ wifiStatus # "WL_CONNECTED")
          => (~wifiConnected /\ ~SendsGet) ]_vars

\* C11: power lost at any point of the saveConfig() a command calls leaves a store
\* from which the next boot loads either the four fields as they were before the
\* command or the four fields as the command set them: between any two putStrings
\* the store loads as one of the two, the loss of power keeps the store, and
\* setup() takes its fields from it.
C11_SaveAtomicUnderPowerLoss ==
    [][ /\ pc = "save" => LoadConfig(prefs) \in {before, config}
        /\ (pc = "save" /\ pc' = "setup")
              => /\ prefs' = prefs
                 /\ LoadConfig(prefs') \in {before, config}
        /\ (pc = "setup" /\ pc' # "setup") => (config' = LoadConfig(prefs) /\ prefs' = prefs)
        /\ (pc = "save" /\ pc' \notin {"save", "setup"})
              => (written = 4 /\ LoadConfig(prefs) = config /\ config' = config) ]_vars

\* C11, the case: power was lost in the first save on an empty store, after the
\* name and the secret were written and before the other two were.
C11_Witness ==
    /\ pc = "setup" /\ DOMAIN prefs = {"wifiSsid", "wifiPass"}
    /\ prefs["wifiSsid"] = "home"

\* C12: a FLASH_RESET that comes in while connectToWifi() waits stays on the line
\* until checkSerialInput() reads it, and is read (unless power is lost first):
\* resetConfig() is then entered with the flag down, the four fields and the store
\* empty and the station off, whether the attempt had ended connected or failed.
C12_ResetAfterConnect ==
    /\ [](arrived # "" /\ pc # "reset" => serialIn = <<"FLASH_RESET">>)
    /\ (arrived = "connecting")
          ~> \/ pc = "setup"
             \/ /\ pc = "reset" /\ arrived \in {"connected", "failed"}
                /\ received = <<"FLASH_RESET">>
                /\ ~wifiConnected /\ wifiStatus = "WL_IDLE_STATUS"
                /\ config = Empty /\ LoadConfig(prefs) = Empty

\* C12, the case: the attempt a WIFI_PASS started ended connected with a FLASH_RESET
\* waiting; the reset has been done and its last pulse written.
C12_Witness ==
    /\ pc = "reset" /\ blink = 6 /\ arrived = "connected"
    /\ ~wifiConnected /\ config = Empty /\ prefs = NoPrefs

\* C13: an attempt of connectToWifi() waits at most 20 times, each wait with the
\* link not up; it returns, and when it returns the flag is up exactly when the
\* link is up, whatever the flag was before, a return with the link down coming
\* only with the 20 waits used up; the sketch then goes on where connectToWifi()
\* was called from, setup() into loop() or checkSerialInput() to the buttons.
C13_ConnectTerminates ==
    /\ [](attempts <= ConnectAttempts)
    /\ [][ /\ (pc = "connect" /\ pc' = "connect" /\ attempts' # attempts)
                 => (attempts' = attempts + 1 /\ wifiStatus # "WL_CONNECTED")
           /\ (pc = "connect" /\ pc' \notin {"connect", "setup"})
                 => /\ wifiConnected' = (wifiStatus = "WL_CONNECTED")
                    /\ wifiStatus # "WL_CONNECTED" => attempts = ConnectAttempts
                    /\ pc' = after /\ pc' \in {"serial", "buttons"} ]_vars
    /\ (pc = "connect") ~> (pc # "connect")

\* C13, the case: a reconnect was started with the flag up, the link went down and
\* the 20 waits are used up.
C13_Witness ==
    /\ pc = "connect" /\ attempts = ConnectAttempts
    /\ wifiConnected /\ wifiStatus = "WL_DISCONNECTED"

\* C14: nothing is kept of a call that could not be made.  A GET is sent only in
\* the step that reads the release it is for (for button 2, the step that goes on
\* from the level read in this pass); a call that finds the flag down or the base
\* address empty sends nothing and takes the mark of its button down, so that only
\* a press armed later can call again.
C14_NoQueueNoRetry ==
    [][ /\ SendsGet => pc \in {"buttons", "get1"}
        /\ (SendsGet /\ pc' = "get1") => (Release1Read /\ sincePress1 >= MIN_PRESS_TIME)
        /\ (SendsGet /\ pc' = "get2")
              => \/ pc = "buttons" /\ pin2 = "HIGH" /\ button2Pressed
                 \/ pc = "get1" /\ button2State = "HIGH" /\ button2Pressed
        /\ (CountNext("/play") > Count("/play") /\ ~CanCall(wifiConnected, baseUrl))
              => (pc' # "get1" /\ ~button1Pressed')
        /\ (CountNext("/pause") > Count("/pause") /\ ~CanCall(wifiConnected, baseUrl))
              => (pc' = "led" /\ http' = <<>> /\ ~button2Pressed')
        /\ (pc = "buttons" /\ pin1 = "HIGH" /\ ~button1Pressed)
              => CountNext("/play") = Count("/play")
        /\ (pc = "buttons" /\ pin2 = "HIGH" /\ ~button2Pressed)
              => CountNext("/pause") = Count("/pause") ]_vars

\* C14, the case: the flag is up and the base address empty; button 2 was released
\* after a qualifying press, the call was made and sent nothing, and the mark is
\* down.
C14_Witness ==
    /\ pc = "led" /\ calls = <<"/pause">> /\ http = <<>>
    /\ wifiConnected /\ baseUrl = "" /\ ~button2Pressed /\ pin2 = "HIGH"

\* C15: what a channel emits depends on its own press and release alone: a release
\* that is read emits the event of its channel exactly when it is read 50 ms or
\* more after its press was armed, whatever the other channel does in the pass; and
\* in a pass that emits both, /play is called first and /pause second.
C15_ChannelsIndependent ==
    [][ /\ Release1Read
              => (CountNext("/play") > Count("/play") <=> sincePress1 >= MIN_PRESS_TIME)
        /\ Release2Read
              => (CountNext("/pause") > Count("/pause") <=> sincePress2 >= MIN_PRESS_TIME)
        /\ Release2Late
              => (CountNext("/pause") > Count("/pause") <=> readAge2 >= MIN_PRESS_TIME)
        /\ calls' \in {<<>>, <<"/play">>, <<"/pause">>, <<"/play", "/pause">>} ]_vars

C17_ConfigOnlyByCommands ==
    [][ (pc \in {"connect", "buttons", "get1", "get2", "led"} /\ pc' # "setup")
          => (config' = config /\ prefs' = prefs) ]_vars

\* C17, the case: with all four fields set and stored, an attempt has connected
\* and a dispatch of this pass has returned.
C17_Witness ==
    /\ pc = "led" /\ response # <<>> /\ wifiConnected
    /\ config = <<"home", "secret1", "http://10.0.0.5", "dXNlcjpwYXNz">>
    /\ LoadConfig(prefs) = config

\* What follows keyword k in a trimmed line, past the space that sets it apart.
ValueAfter(c, k) == IF Len(c) > Len(k) + 1 THEN SubSeq(c, Len(k) + 2, Len(c)) ELSE ""

\* C18 as stated: a trimmed line that begins with the keyword of a setter sets that
\* field to what follows the keyword, empty when nothing follows, and saves; a
\* trimmed line that begins with FLASH_RESET resets.
C18_MatchedByKeywordPrefix ==
    [][ Processes =>
          LET c == Trim(serialIn[1]) IN
          /\ StartsWith(c, "WIFI_SSID")
                => (wifiSsid' = ValueAfter(c, "WIFI_SSID") /\ LoadConfig(prefs') = config')
          /\ StartsWith(c, "WIFI_PASS")
                => (wifiPass' = ValueAfter(c, "WIFI_PASS") /\ LoadConfig(prefs') = config')
          /\ StartsWith(c, "BASE_URL")
                => (baseUrl' = ValueAfter(c, "BASE_URL") /\ LoadConfig(prefs') = config')
          /\ StartsWith(c, "API_KEY")
                => (apiKey' = ValueAfter(c, "API_KEY") /\ LoadConfig(prefs') = config')
          /\ StartsWith(c, "FLASH_RESET") => pc' = "reset" ]_vars

\* C18 as amended: a trimmed line that begins with the keyword of a setter and a
\* space sets that field, and no other, to the rest of the line after that space,
\* which is never empty, and saves; a trimmed line that is FLASH_RESET, and no
\* other, resets; every other line, a keyword alone or in lower case or FLASH_RESET
\* with something after it among them, changes nothing.
C18_MatchedByKeywordAndSpace ==
    [][ Processes =>
          LET c == Trim(serialIn[1])
              rest(n) == SubSeq(c, n + 1, Len(c))
              isSet == \E k \in {"WIFI_SSID ", "WIFI_PASS ", "BASE_URL ", "API_KEY "} :
                          Len(c) > Len(k) /\ SubSeq(c, 1, Len(k)) = k
          IN
          /\ (Len(c) > 10 /\ SubSeq(c, 1, 10) = "WIFI_SSID ")
                => config' = <<rest(10), wifiPass, baseUrl, apiKey>>
          /\ (Len(c) > 10 /\ SubSeq(c, 1, 10) = "WIFI_PASS ")
                => config' = <<wifiSsid, rest(10), baseUrl, apiKey>>
          /\ (Len(c) > 9 /\ SubSeq(c, 1, 9) = "BASE_URL ")
                => config' = <<wifiSsid, wifiPass, rest(9), apiKey>>
          /\ (Len(c) > 8 /\ SubSeq(c, 1, 8) = "API_KEY ")
                => config' = <<wifiSsid, wifiPass, baseUrl, rest(8)>>
          /\ isSet => (LoadConfig(prefs') = config' /\ DOMAIN prefs' = {"wifiSsid", "wifiPass", "baseUrl", "apiKey"})
          /\ c = "FLASH_RESET" <=> pc' = "reset"
          /\ c = "FLASH_RESET" => (config' = Empty /\ prefs' = NoPrefs)
          /\ (~isSet /\ c # "FLASH_RESET")
                => /\ config' = config /\ prefs' = prefs /\ pc' = "buttons"
                   /\ wifiConnected' = wifiConnected /\ wifiStatus' = wifiStatus
                   /\ led' = led ]_vars

\* C18, the case: with the name set, a line of the keyword WIFI_SSID alone was read
\* and the name is as it was.
C18_Witness ==
    /\ pc = "buttons" /\ received = <<"WIFI_SSID">> /\ wifiSsid = "home"
    /\ LoadConfig(prefs) = config

\* C19: whenever loop() is between two calls with the flag up (at the top of a
\* pass, before the buttons, before the refresh), the indicator is low: an attempt
\* that ends connected leaves it low, and the refresh of loop() writes it only with
\* the flag down.
C19_IndicatorOffWhenConnected ==
    [][ /\ (pc \in {"serial", "buttons", "led"} /\ wifiConnected) => led = "LOW"
        /\ (pc = "connect" /\ pc' \notin {"connect", "setup"} /\ wifiConnected')
              => led' = "LOW"
        /\ (pc = "led" /\ led' # led) => ~wifiConnected ]_vars

\* C19, the case: a pass starts with the flag and the link up, nothing on the line
\* and no button down.
C19_Witness ==
    /\ pc = "serial" /\ wifiConnected /\ led = "LOW"
    /\ wifiStatus = "WL_CONNECTED" /\ serialIn = <<>>
    /\ ~button1Pressed /\ ~button2Pressed

\* C20: while button 1 is armed the difference millis() - pressStartTime1, taken
\* modulo 2^32, is the time the button has been held, wherever the counter stood
\* when the press began and whether or not it wrapped since; so the release of a
\* press held less than 2^32 ms calls /play exactly when it was held 50 ms or more,
\* which is also what the age kept by the other specifications gives.
C20_ElapsedAcrossWrap ==
    [][ /\ button1Pressed => Sub32(millis, pressStartTime1) = held
        /\ (button1Pressed /\ ~button1Pressed')
              => /\ (calls' = <<"/play">>) <=> AtLeast32(held, MIN_PRESS_TIME)
                 /\ (calls' = <<"/play">>) <=> Qualifies(sincePress1)
                 /\ calls' \in {<<>>, <<"/play">>} ]_vars

\* C20, the case: a press that began 25 ms before the counter wrapped was released
\* 50 ms later, 25 ms past the wrap, and called /play.
C20_Witness ==
    /\ ~button1Pressed /\ pin1 = "HIGH" /\ calls = <<"/play">>
    /\ pressStartTime1 = <<Half - 1, Half - 25>> /\ millis = <<0, 25>>
    /\ held = <<0, 50>>

====
